---- MODULE Spec2Model ----
(***************************************************************************)
(* Product Store Service (service/routes.py): the REST handlers for the    *)
(* Product resource, as a state machine.  One action per route handler;    *)
(* a step is one request handled from its first line to its response.      *)
(*                                                                         *)
(* The Product model, the Category enumeration and the error handlers      *)
(* (service/models.py, service/common/error_handlers.py) are collaborators *)
(* of routes.py; they are modelled from the specification (sections 3, 4   *)
(* and 7) and marked so in the comments below.                             *)
(***************************************************************************)
EXTENDS Integers, FiniteSets, Sequences, TLC

VARIABLES
    products,   \* the stored rows: product id -> Product
    next_id,    \* the id the storage layer assigns to the next created row
    origin,     \* history: id -> the payload it was created from, while
                \* no update or delete of that id has happened since
    request,    \* the request handled by the last step
    response,   \* the response returned by the last step
    puts        \* the PUT requests being handled step by step, per worker

vars == <<products, next_id, origin, request, response, puts>>

----------------------------------------------------------------------------
(* Bounds *)

\* At most this many products are ever created (ids 1..MaxProducts).
MaxProducts == 2

----------------------------------------------------------------------------
(* HTTP status codes (service/common/status.py) *)

HTTP_200_OK == 200
HTTP_201_CREATED == 201
HTTP_204_NO_CONTENT == 204
HTTP_400_BAD_REQUEST == 400
HTTP_404_NOT_FOUND == 404
HTTP_415_UNSUPPORTED_MEDIA_TYPE == 415

----------------------------------------------------------------------------
(* JSON values: <<type, literal>>                                          *)

Str(s) == <<"str", s>>
Num(s) == <<"num", s>>
JsonTrue == <<"bool", "true">>
JsonFalse == <<"bool", "false">>
JsonNull == <<"null", "null">>

Bool(b) == IF b THEN JsonTrue ELSE JsonFalse

\* The value of a key of a JSON object; null when the key is absent.
Field(obj, key) == IF key \in DOMAIN obj THEN obj[key] ELSE JsonNull

----------------------------------------------------------------------------
(* Category enumeration and decimal prices (service/models.py)             *)

Category == {"UNKNOWN", "CLOTHS", "FOOD", "HOUSEWARES", "AUTOMOTIVE", "TOOLS"}

\* Decimal(literal): the numeric literals of the model, in hundredths.
\* "7.5" and "7.50" denote the same decimal.
DecimalTable ==
    [lit \in {"10.00", "7.50", "7.5"} |->
        CASE lit = "10.00" -> 1000
          [] lit = "7.50" -> 750
          [] lit = "7.5" -> 750]

IsNumeric(lit) == lit \in DOMAIN DecimalTable

Decimal(lit) == DecimalTable[lit]

\* str(price) of a stored decimal.
FormatDecimal(d) ==
    CASE d = 1000 -> "10.00"
      [] d = 750 -> "7.50"

\* The ASCII letters, lower case and upper case, in the same order.
ascii_lowercase == "abcdefghijklmnopqrstuvwxyz"
ascii_uppercase == "ABCDEFGHIJKLMNOPQRSTUVWXYZ"

\* str.upper() of one character: a lower-case ASCII letter becomes its
\* upper-case letter, every other ASCII character is kept.
upper_char(c) ==
    IF \E i \in 1..Len(ascii_lowercase) : SubSeq(ascii_lowercase, i, i) = c
      THEN LET i == CHOOSE j \in 1..Len(ascii_lowercase) :
                        SubSeq(ascii_lowercase, j, j) = c
           IN SubSeq(ascii_uppercase, i, i)
      ELSE c

\* str.upper() of an ASCII string, character by character.
RECURSIVE upper(_)
upper(s) ==
    IF Len(s) = 0
      THEN s
      ELSE upper_char(SubSeq(s, 1, 1)) \o upper(SubSeq(s, 2, Len(s)))

\* bool(str): the truthiness of a string.
bool(s) == s # ""

----------------------------------------------------------------------------
(* Product.deserialize / Product.serialize (service/models.py)             *)

RequiredFields == {"name", "price", "available", "category"}

\* Mutant of IsValidPayload: the category name is not looked up.
IsValidPayload_any_category(data) ==
    /\ RequiredFields \subseteq DOMAIN data
    /\ data["name"][1] = "str"
    /\ "description" \in DOMAIN data => data["description"][1] = "str"
    /\ data["price"][1] \in {"str", "num"}
    /\ IsNumeric(data["price"][2])
    /\ data["available"][1] = "bool"
    /\ data["category"][1] = "str"

\* The payload passes the validation of deserialize.
IsValidPayload(data) ==
    /\ RequiredFields \subseteq DOMAIN data
    /\ data["name"][1] = "str"
    /\ "description" \in DOMAIN data => data["description"][1] = "str"
    /\ data["price"][1] \in {"str", "num"}
    /\ IsNumeric(data["price"][2])
    /\ data["available"][1] = "bool"
    /\ data["category"][1] = "str"
    /\ data["category"][2] \in Category

\* The Product a valid payload denotes; an id in the payload is not read.
deserialize(data) ==
    [name |-> data["name"][2],
     description |-> Field(data, "description"),
     price |-> Decimal(data["price"][2]),
     available |-> (data["available"] = JsonTrue),
     category |-> data["category"][2]]

\* The JSON object of the stored Product with this id.
serialize(id, product) ==
    [id |-> id,
     name |-> Str(product.name),
     description |-> product.description,
     price |-> Str(FormatDecimal(product.price)),
     available |-> Bool(product.available),
     category |-> Str(product.category)]

----------------------------------------------------------------------------
(* Storage queries (service/models.py)                                     *)

\* Product.find(product_id) found a row.
find(product_id) == product_id \in DOMAIN products

find_by_name(name) == {i \in DOMAIN products : products[i].name = name}

find_by_category(category) ==
    {i \in DOMAIN products : products[i].category = category}

find_by_availability(available) ==
    {i \in DOMAIN products : products[i].available = available}

all == DOMAIN products

----------------------------------------------------------------------------
(* Responses                                                               *)

NoBody == [type |-> "none"]
NoLocation == << >>

\* An error response of the request boundary: a JSON error body and status.
error_response(status) ==
    [status |-> status,
     body |-> [type |-> "error", value |-> status],
     location |-> NoLocation]

\* not_found(message) of service/common/error_handlers.py
not_found == error_response(HTTP_404_NOT_FOUND)

\* The handler of a model validation error (DataValidationError).
bad_request == error_response(HTTP_400_BAD_REQUEST)

\* An exception raised in a handler that nothing converts to a response of
\* its own: the request ends as an unhandled fault.
internal_server_error == error_response(500)

\* abort(415, ...)
unsupported_media_type == error_response(HTTP_415_UNSUPPORTED_MEDIA_TYPE)

\* The answer of the URL map to a path that matches a rule, but none with
\* the request's method.
method_not_allowed == error_response(405)

----------------------------------------------------------------------------
(* Requests                                                                *)

\* The product id of a request on /products, whose path has none; it is no
\* path id.
NoId == -2
NoJson == [k \in {} |-> JsonNull]
NoArgs == [k \in {} |-> ""]
NoHeaders == ("Accept" :> "*/*")

Request(method, product_id, headers, json, args) ==
    [method |-> method, product_id |-> product_id, headers |-> headers,
     json |-> json, args |-> args]

\* Request headers: without a Content-Type, and with one.
WithContentType(v) == NoHeaders @@ ("Content-Type" :> v)

JsonType == "application/json"

OtherHeaders ==
    {NoHeaders, WithContentType("plain/text"),
     WithContentType("application/json; charset=utf-8")}

Hat ==
    [name |-> Str("Hat"), description |-> Str("Red hat"),
     price |-> Str("10.00"), available |-> JsonTrue,
     category |-> Str("CLOTHS")]

\* description is optional; the price is a JSON number.
Cap ==
    [name |-> Str("Cap"), price |-> Num("7.5"), available |-> JsonFalse,
     category |-> Str("FOOD")]

\* Shares its name with Hat and its category with Cap; carries an id.
Beret ==
    [id |-> 2, name |-> Str("Hat"), description |-> Str("Blue beret"),
     price |-> Str("7.50"), available |-> JsonTrue,
     category |-> Str("FOOD")]

ValidPayloads == {Hat, Cap, Beret}

Without(data, key) == [k \in DOMAIN data \ {key} |-> data[k]]

NoName == Without(Hat, "name")
BogusCategory == [Hat EXCEPT !["category"] = Str("BOGUS")]
AvailableYes == [Hat EXCEPT !["available"] = Str("yes")]

InvalidPayloads ==
    {NoName, Without(Hat, "price"), Without(Cap, "available"),
     Without(Cap, "category"), BogusCategory, AvailableYes,
     [Cap EXCEPT !["price"] = Str("abc")]}

Payloads == ValidPayloads \cup InvalidPayloads

\* The <<headers, body>> pairs posted to /products.
CreateInputs ==
    ({WithContentType(JsonType)} \X Payloads)
        \cup (OtherHeaders \X {Hat, NoName})

\* The <<headers, body>> pairs put to /products/<product_id>.
UpdateInputs ==
    ({WithContentType(JsonType)}
        \X (ValidPayloads \cup {NoName, BogusCategory, AvailableYes}))
        \cup (OtherHeaders \X {Cap, NoName})

\* Path ids: -1 and 0 are never assigned (-1 is the invalid id of
\* test_get_invalid_product and test_update_product, 0 that of
\* test_delete_invalid_product).
PathIds == -1..MaxProducts

ByName(v) == ("name" :> v)
ByCategory(v) == ("category" :> v)
ByAvailable(v) == ("available" :> v)

\* The query strings of GET /products.
QueryArgs ==
    {NoArgs,
     ByName("Hat"), ByName("Zed"),
     ByCategory("food"), ByCategory("CLOTHS"), ByCategory("bogus"),
     ByCategory("Food"), ByCategory("tools"), ByCategory("HouseWares"),
     ByAvailable("True"), ByAvailable("False"), ByAvailable(""),
     ByName("Hat") @@ ByCategory("food"),
     ByName("Zed") @@ ByCategory("bogus"),
     ByName("Hat") @@ ByAvailable(""),
     ByCategory("food") @@ ByAvailable(""),
     ByCategory("bogus") @@ ByAvailable("True"),
     ByName("Hat") @@ ByCategory("bogus") @@ ByAvailable("False")}

----------------------------------------------------------------------------
(* Utility functions                                                       *)

\* Mutant of check_content_type: a request without the header passes.
check_content_type_if_present(headers, content_type) ==
    "Content-Type" \in DOMAIN headers
        => headers["Content-Type"] = content_type

\* check_content_type returns normally (it does not abort with 415).
check_content_type(headers, content_type) ==
    /\ "Content-Type" \in DOMAIN headers
    /\ headers["Content-Type"] = content_type

\* url_for("get_products", product_id=id): the read URL /products/{id}.
url_for_get_products(id) == <<"products", id>>

----------------------------------------------------------------------------
(* Storage updates (service/models.py)                                     *)

\* product.create(): the storage layer assigns the next id.
create(product) ==
    [i \in DOMAIN products \cup {next_id} |->
        IF i = next_id THEN product ELSE products[i]]

\* product.delete()
delete(product_id) == [i \in DOMAIN products \ {product_id} |-> products[i]]

\* old_product.update(): the row of product_id is saved.
update(product_id, product) == [products EXCEPT ![product_id] = product]

\* The workers that handle PUT requests concurrently.
Workers == {"w1", "w2"}

\* A worker with no request.  pc: "idle", "found" (the row has been looked
\* up, the write is still to come) or "done" (the response is returned);
\* old_product: the row read by the lookup, if any; wrote: 0, or the
\* position of this worker's write among the writes so far.
Idle ==
    [pc |-> "idle", product_id |-> NoId, headers |-> NoHeaders,
     json |-> NoJson, old_product |-> {},
     response |-> [status |-> 0, body |-> NoBody, location |-> NoLocation],
     wrote |-> 0]

Init ==
    /\ products = [i \in {} |-> 0]
    /\ next_id = 1
    /\ origin = [i \in {} |-> NoJson]
    /\ request = Request("NONE", NoId, NoHeaders, NoJson, NoArgs)
    /\ response = [status |-> 0, body |-> NoBody, location |-> NoLocation]
    /\ puts = [w \in Workers |-> Idle]

----------------------------------------------------------------------------
(* POST /products                                                          *)

\* Mutant of created_response: the Location is built without the new id.
created_response_no_id(id, product) ==
    [status |-> HTTP_201_CREATED,
     body |-> [type |-> "object", value |-> serialize(id, product)],
     location |-> url_for_get_products(NoId)]

\* routes.py 97-100: the 201 response of a created product.
created_response(id, product) ==
    [status |-> HTTP_201_CREATED,
     body |-> [type |-> "object", value |-> serialize(id, product)],
     location |-> url_for_get_products(id)]

create_products(headers, data) ==
    /\ request' = Request("POST", NoId, headers, data, NoArgs)
    /\ IF ~check_content_type(headers, JsonType)
         THEN /\ response' = unsupported_media_type
              /\ UNCHANGED <<products, next_id, origin>>
         ELSE IF ~IsValidPayload(data)
         THEN /\ response' = bad_request
              /\ UNCHANGED <<products, next_id, origin>>
         ELSE /\ next_id <= MaxProducts
              /\ products' = create(deserialize(data))
              /\ next_id' = next_id + 1
              /\ origin' = [i \in DOMAIN origin \cup {next_id} |->
                               IF i = next_id THEN data ELSE origin[i]]
              /\ response' = created_response(next_id, deserialize(data))

----------------------------------------------------------------------------
(* GET /products                                                           *)

\* Mutant of category_key: the name is looked up as given.
category_key_as_given(category) == category

\* routes.py 117: category.upper(), the name looked up in the enumeration.
category_key(category) == upper(category)

\* routes.py 117: getattr(Category, name) finds a member.  With no member
\* of that name getattr raises AttributeError; list_products neither
\* catches it nor turns it into a validation error.
has_category(name) == name \in Category

\* Mutant of filter_choice: category is tested before name.
filter_choice_category_first(args) ==
    IF "category" \in DOMAIN args THEN "category"
    ELSE IF "name" \in DOMAIN args THEN "name"
    ELSE IF "available" \in DOMAIN args THEN "available"
    ELSE "all"

\* routes.py 110-127: the one filter applied, by the parameters present.
filter_choice(args) ==
    IF "name" \in DOMAIN args THEN "name"
    ELSE IF "category" \in DOMAIN args THEN "category"
    ELSE IF "available" \in DOMAIN args THEN "available"
    ELSE "all"

\* routes.py 120: the availability queried for.
available_status(value) == bool(value)

\* routes.py 129-135: the 200 response listing the selected rows.
list_response(ids) ==
    [status |-> HTTP_200_OK,
     body |-> [type |-> "array",
               value |-> {serialize(i, products[i]) : i \in ids}],
     location |-> NoLocation]

list_products(args) ==
    /\ request' = Request("LIST", NoId, NoHeaders, NoJson, args)
    /\ UNCHANGED <<products, next_id, origin>>
    /\ LET choice == filter_choice(args) IN
       IF choice = "name"
         THEN response' = list_response(find_by_name(args["name"]))
       ELSE IF choice = "category"
         THEN IF has_category(category_key(args["category"]))
                THEN response' = list_response(
                         find_by_category(category_key(args["category"])))
                ELSE response' = internal_server_error
       ELSE IF choice = "available"
         THEN response' = list_response(
                  find_by_availability(available_status(args["available"])))
       ELSE response' = list_response(all)

----------------------------------------------------------------------------
(* GET /products/<product_id>                                              *)

\* Mutant of get_products: a missing row is answered with an empty 200.
get_products_empty_200(product_id) ==
    /\ request' = Request("GET", product_id, NoHeaders, NoJson, NoArgs)
    /\ UNCHANGED <<products, next_id, origin>>
    /\ IF ~find(product_id)
         THEN response' = [status |-> HTTP_200_OK, body |-> NoBody,
                           location |-> NoLocation]
         ELSE response' =
                  [status |-> HTTP_200_OK,
                   body |-> [type |-> "object",
                             value |-> serialize(product_id,
                                                 products[product_id])],
                   location |-> NoLocation]

get_products(product_id) ==
    /\ request' = Request("GET", product_id, NoHeaders, NoJson, NoArgs)
    /\ UNCHANGED <<products, next_id, origin>>
    /\ IF ~find(product_id)
         THEN response' = not_found
         ELSE response' =
                  [status |-> HTTP_200_OK,
                   body |-> [type |-> "object",
                             value |-> serialize(product_id,
                                                 products[product_id])],
                   location |-> NoLocation]

----------------------------------------------------------------------------
(* PUT /products/<product_id>                                              *)

\* Mutant of overwrite: the description is not copied.
overwrite_keeps_description(old_product, updated_product) ==
    [old_product EXCEPT
        !.name = updated_product.name,
        !.price = updated_product.price,
        !.available = updated_product.available,
        !.category = updated_product.category]

\* routes.py 177-181: the mutable fields of the found row are overwritten.
overwrite(old_product, updated_product) ==
    [old_product EXCEPT
        !.name = updated_product.name,
        !.description = updated_product.description,
        !.price = updated_product.price,
        !.available = updated_product.available,
        !.category = updated_product.category]

\* Mutant of update_products: the row is looked up before the content type
\* is checked.
update_products_lookup_first(product_id, headers, data) ==
    /\ request' = Request("PUT", product_id, headers, data, NoArgs)
    /\ UNCHANGED next_id
    /\ IF ~find(product_id)
         THEN /\ response' = not_found
              /\ UNCHANGED <<products, origin>>
         ELSE IF ~check_content_type(headers, JsonType)
         THEN /\ response' = unsupported_media_type
              /\ UNCHANGED <<products, origin>>
         ELSE IF ~IsValidPayload(data)
         THEN /\ response' = bad_request
              /\ UNCHANGED <<products, origin>>
         ELSE LET old_product ==
                      overwrite(products[product_id], deserialize(data))
              IN /\ products' = update(product_id, old_product)
                 /\ origin' = [i \in DOMAIN origin \ {product_id} |->
                                  origin[i]]
                 /\ response' =
                        [status |-> HTTP_200_OK,
                         body |-> [type |-> "object",
                                   value |-> serialize(product_id,
                                                       old_product)],
                         location |-> NoLocation]

\* Mutant of update_products: the body is deserialized into the stored row
\* itself, so the name is written before the validation has finished.
update_products_in_place(product_id, headers, data) ==
    /\ request' = Request("PUT", product_id, headers, data, NoArgs)
    /\ UNCHANGED next_id
    /\ IF ~check_content_type(headers, JsonType)
         THEN /\ response' = unsupported_media_type
              /\ UNCHANGED <<products, origin>>
         ELSE IF ~find(product_id)
         THEN /\ response' = not_found
              /\ UNCHANGED <<products, origin>>
         ELSE IF ~IsValidPayload(data)
         THEN /\ response' = bad_request
              /\ products' =
                     IF "name" \in DOMAIN data /\ data["name"][1] = "str"
                       THEN [products EXCEPT
                                ![product_id].name = data["name"][2]]
                       ELSE products
              /\ UNCHANGED origin
         ELSE LET old_product ==
                      overwrite(products[product_id], deserialize(data))
              IN /\ products' = update(product_id, old_product)
                 /\ origin' = [i \in DOMAIN origin \ {product_id} |->
                                  origin[i]]
                 /\ response' =
                        [status |-> HTTP_200_OK,
                         body |-> [type |-> "object",
                                   value |-> serialize(product_id,
                                                       old_product)],
                         location |-> NoLocation]

update_products(product_id, headers, data) ==
    /\ request' = Request("PUT", product_id, headers, data, NoArgs)
    /\ UNCHANGED next_id
    /\ IF ~check_content_type(headers, JsonType)
         THEN /\ response' = unsupported_media_type
              /\ UNCHANGED <<products, origin>>
         ELSE IF ~find(product_id)
         THEN /\ response' = not_found
              /\ UNCHANGED <<products, origin>>
         ELSE IF ~IsValidPayload(data)
         THEN /\ response' = bad_request
              /\ UNCHANGED <<products, origin>>
         ELSE LET old_product ==
                      overwrite(products[product_id], deserialize(data))
              IN /\ products' = update(product_id, old_product)
                 /\ origin' = [i \in DOMAIN origin \ {product_id} |->
                                  origin[i]]
                 /\ response' =
                        [status |-> HTTP_200_OK,
                         body |-> [type |-> "object",
                                   value |-> serialize(product_id,
                                                       old_product)],
                         location |-> NoLocation]

----------------------------------------------------------------------------
(* DELETE /products/<int:product_id>                                       *)

\* The int converter of the DELETE rule: it matches digits only, so a path
\* id with a minus sign does not match the rule.
int_converter(product_id) == product_id >= 0

\* Mutant of delete_products: 204 is returned without product.delete().
delete_products_no_delete(product_id) ==
    /\ request' = Request("DELETE", product_id, NoHeaders, NoJson, NoArgs)
    /\ UNCHANGED <<products, next_id, origin>>
    /\ IF ~int_converter(product_id)
         THEN response' = method_not_allowed
         ELSE IF ~find(product_id)
         THEN response' = not_found
         ELSE response' = [status |-> HTTP_204_NO_CONTENT,
                           body |-> NoBody,
                           location |-> NoLocation]

\* A DELETE of /products/{id}.  When the int converter does not match the
\* id, the path still matches /products/<product_id> of GET and PUT, and
\* the request is answered 405 without entering the handler.
delete_products(product_id) ==
    /\ request' = Request("DELETE", product_id, NoHeaders, NoJson, NoArgs)
    /\ UNCHANGED next_id
    /\ IF ~int_converter(product_id)
         THEN /\ response' = method_not_allowed
              /\ UNCHANGED <<products, origin>>
         ELSE IF ~find(product_id)
         THEN /\ response' = not_found
              /\ UNCHANGED <<products, origin>>
         ELSE /\ products' = delete(product_id)
              /\ origin' = [i \in DOMAIN origin \ {product_id} |-> origin[i]]
              /\ response' = [status |-> HTTP_204_NO_CONTENT,
                              body |-> NoBody,
                              location |-> NoLocation]

----------------------------------------------------------------------------

\* Requests handled one at a time, each from its first line to its response.
Next ==
    \/ \E in \in CreateInputs :
           create_products(in[1], in[2]) /\ UNCHANGED puts
    \/ \E args \in QueryArgs : list_products(args) /\ UNCHANGED puts
    \/ \E product_id \in PathIds :
           get_products(product_id) /\ UNCHANGED puts
    \/ \E product_id \in PathIds, in \in UpdateInputs :
           update_products(product_id, in[1], in[2]) /\ UNCHANGED puts
    \/ \E product_id \in PathIds :
           delete_products(product_id) /\ UNCHANGED puts

Spec == Init /\ [][Next]_vars

----------------------------------------------------------------------------
(* PUT /products/<product_id> handled by concurrent workers: the lookup    *)
(* and the write of update_products are separate steps, and the requests   *)
(* of other workers run between them.                                      *)

\* The <<headers, body>> pairs put concurrently.
ConcurrentInputs ==
    ({WithContentType(JsonType)} \X (ValidPayloads \cup {NoName}))
        \cup ({NoHeaders} \X {Cap})

\* The number of writes of the workers so far.
Writes == Cardinality({w \in Workers : puts[w].wrote > 0})

\* routes.py 164-170: the content type is checked and the row looked up.
put_lookup(w, product_id, headers, data) ==
    /\ puts[w].pc = "idle"
    /\ UNCHANGED <<products, next_id, origin, request, response>>
    /\ LET req == [Idle EXCEPT !.product_id = product_id,
                               !.headers = headers, !.json = data]
       IN IF ~check_content_type(headers, JsonType)
            THEN puts' = [puts EXCEPT ![w] =
                     [req EXCEPT !.pc = "done",
                                 !.response = unsupported_media_type]]
          ELSE IF ~find(product_id)
            THEN puts' = [puts EXCEPT ![w] =
                     [req EXCEPT !.pc = "done", !.response = not_found]]
          ELSE puts' = [puts EXCEPT ![w] =
                   [req EXCEPT !.pc = "found",
                               !.old_product = {products[product_id]}]]

\* Mutant of put_write: the write is refused with 409 when the row is no
\* longer the one the lookup read.
put_write_versioned(w) ==
    /\ puts[w].pc = "found"
    /\ UNCHANGED <<next_id, request, response>>
    /\ IF ~IsValidPayload(puts[w].json)
         THEN /\ puts' = [puts EXCEPT ![w].pc = "done",
                                      ![w].response = bad_request]
              /\ UNCHANGED <<products, origin>>
         ELSE IF {products[puts[w].product_id]} # puts[w].old_product
         THEN /\ puts' = [puts EXCEPT ![w].pc = "done",
                                      ![w].response = error_response(409)]
              /\ UNCHANGED <<products, origin>>
         ELSE LET read == CHOOSE row \in puts[w].old_product : TRUE
                  old_product == overwrite(read, deserialize(puts[w].json))
              IN /\ products' = update(puts[w].product_id, old_product)
                 /\ origin' = [i \in DOMAIN origin \ {puts[w].product_id}
                                  |-> origin[i]]
                 /\ puts' = [puts EXCEPT
                        ![w].pc = "done",
                        ![w].wrote = Writes + 1,
                        ![w].response =
                            [status |-> HTTP_200_OK,
                             body |-> [type |-> "object",
                                       value |-> serialize(
                                           puts[w].product_id, old_product)],
                             location |-> NoLocation]]

\* routes.py 172-185: the body is deserialized, the fields of the row read
\* by the lookup are overwritten, the row is saved and returned.
put_write(w) ==
    /\ puts[w].pc = "found"
    /\ UNCHANGED <<next_id, request, response>>
    /\ IF ~IsValidPayload(puts[w].json)
         THEN /\ puts' = [puts EXCEPT ![w].pc = "done",
                                      ![w].response = bad_request]
              /\ UNCHANGED <<products, origin>>
         ELSE LET read == CHOOSE row \in puts[w].old_product : TRUE
                  old_product == overwrite(read, deserialize(puts[w].json))
              IN /\ products' = update(puts[w].product_id, old_product)
                 /\ origin' = [i \in DOMAIN origin \ {puts[w].product_id}
                                  |-> origin[i]]
                 /\ puts' = [puts EXCEPT
                        ![w].pc = "done",
                        ![w].wrote = Writes + 1,
                        ![w].response =
                            [status |-> HTTP_200_OK,
                             body |-> [type |-> "object",
                                       value |-> serialize(
                                           puts[w].product_id, old_product)],
                             location |-> NoLocation]]

\* Products are created, and two workers handle one PUT each, step by step.
NextConcurrent ==
    \/ \E data \in ValidPayloads :
           create_products(WithContentType(JsonType), data)
               /\ UNCHANGED puts
    \/ \E w \in Workers, product_id \in PathIds, in \in ConcurrentInputs :
           put_lookup(w, product_id, in[1], in[2])
    \/ \E w \in Workers : put_write(w)

SpecConcurrent == Init /\ [][NextConcurrent]_vars

----------------------------------------------------------------------------
(* Vocabulary of the properties                                            *)

\* The request declares exactly the JSON content type.
HasJsonType(headers) ==
    /\ "Content-Type" \in DOMAIN headers
    /\ headers["Content-Type"] = "application/json"

\* The product fields of a JSON object equal those of the payload; prices
\* are compared as decimals (as Decimal(...) in tests/test_routes.py).
SameFields(obj, payload) ==
    /\ obj["name"] = payload["name"]
    /\ obj["description"] = Field(payload, "description")
    /\ Decimal(obj["price"][2]) = Decimal(payload["price"][2])
    /\ obj["available"] = payload["available"]
    /\ obj["category"] = payload["category"]

\* The stored row holds the values of the payload.
RowHolds(row, payload) ==
    /\ Str(row.name) = payload["name"]
    /\ row.description = Field(payload, "description")
    /\ row.price = Decimal(payload["price"][2])
    /\ Bool(row.available) = payload["available"]
    /\ Str(row.category) = payload["category"]

\* Ids that were assigned and whose row has been deleted.
Deleted == (1..(next_id - 1)) \ DOMAIN products

\* The response is a 200 listing exactly the stored rows with these ids.
ListsExactly(resp, ids) ==
    /\ resp.status = 200
    /\ resp.body.type = "array"
    /\ {obj.id : obj \in resp.body.value} = ids
    /\ \A obj \in resp.body.value :
           /\ Str(products[obj.id].name) = obj.name
           /\ products[obj.id].description = obj.description
           /\ products[obj.id].price = Decimal(obj.price[2])
           /\ Bool(products[obj.id].available) = obj.available
           /\ Str(products[obj.id].category) = obj.category

----------------------------------------------------------------------------
(* C1: round trip.  A POST of a valid payload P as application/json        *)
(* returns 201 with an id no stored product has and the Location           *)
(* /products/{id}; and while that id has been neither updated nor deleted, *)
(* every GET of it returns 200 with name, description, price, available    *)
(* and category equal to those of P.                                       *)
RoundTrip ==
    [][/\ (/\ request'.method = "POST"
           /\ HasJsonType(request'.headers)
           /\ request'.json \in ValidPayloads)
          => /\ response'.status = 201
             /\ response'.body.value.id \notin DOMAIN products
             /\ response'.body.value.id \in DOMAIN products'
             /\ response'.location = <<"products", response'.body.value.id>>
             /\ origin'[response'.body.value.id] = request'.json
       /\ (/\ request'.method = "GET"
           /\ request'.product_id \in DOMAIN origin)
          => /\ response'.status = 200
             /\ response'.body.type = "object"
             /\ response'.body.value.id = request'.product_id
             /\ SameFields(response'.body.value,
                           origin[request'.product_id])]_vars

\* A GET answers for a product posted with a numeric price and without a
\* description, after a later product has been created as well.
RoundTripWitness ==
    /\ request.method = "GET"
    /\ request.product_id = 1
    /\ 1 \in DOMAIN origin
    /\ origin[1] = Cap
    /\ 2 \in DOMAIN products
    /\ response.status = 200

(* C2: update replaces fully.  A PUT answered 200 sets the name,           *)
(* description, price, available and category of the row of the path id to *)
(* the body's values, answers with the path id even when the body carries  *)
(* another id, and changes no other row and no id.                         *)
UpdateReplacesFully ==
    [][(request'.method = "PUT" /\ response'.status = 200)
          => /\ request'.product_id \in DOMAIN products
             /\ DOMAIN products' = DOMAIN products
             /\ RowHolds(products'[request'.product_id], request'.json)
             /\ \A i \in DOMAIN products \ {request'.product_id} :
                    products'[i] = products[i]
             /\ response'.body.value.id = request'.product_id
             /\ SameFields(response'.body.value, request'.json)]_vars

\* A PUT to id 1 whose body carries id 2, with two rows stored, succeeded.
UpdateWitness ==
    /\ request.method = "PUT"
    /\ request.product_id = 1
    /\ request.json = Beret
    /\ DOMAIN products = {1, 2}
    /\ RowHolds(products[2], Cap)
    /\ response.status = 200

DeleteObservability ==
    [][/\ (/\ request'.method = "DELETE"
           /\ request'.product_id \in DOMAIN products)
          => /\ response'.status = 204
             /\ response'.body = NoBody
             /\ Cardinality(DOMAIN products')
                    = Cardinality(DOMAIN products) - 1
             /\ DOMAIN products' = DOMAIN products \ {request'.product_id}
             /\ \A i \in DOMAIN products' : products'[i] = products[i]
       /\ (/\ request'.method \in {"GET", "DELETE"}
           /\ request'.product_id \in Deleted)
          => response'.status = 404]_vars

\* The second DELETE of an id was answered 404 while another row remains.
DeleteWitness ==
    /\ request.method = "DELETE"
    /\ request.product_id \in Deleted
    /\ response.status = 404
    /\ DOMAIN products # {}

(* C5: content-type enforcement.  A POST without a Content-Type header, or *)
(* with any value other than exactly application/json, returns 415,        *)
(* whatever its body, and stores nothing.                                  *)
ContentTypeEnforced ==
    [][(request'.method = "POST" /\ ~HasJsonType(request'.headers))
          => /\ response'.status = 415
             /\ products' = products]_vars

\* A valid body posted as application/json; charset=utf-8 was answered 415.
ContentTypeWitness ==
    /\ request.method = "POST"
    /\ "Content-Type" \in DOMAIN request.headers
    /\ request.headers["Content-Type"] = "application/json; charset=utf-8"
    /\ request.json = Hat
    /\ response.status = 415

(* C6: an invalid create is rejected.  A POST as application/json whose    *)
(* payload lacks name, price, available or category, names an unknown      *)
(* category, or has a wrongly typed field returns 400 and adds no product. *)
InvalidCreateRejected ==
    [][(/\ request'.method = "POST"
        /\ HasJsonType(request'.headers)
        /\ request'.json \in InvalidPayloads)
          => /\ response'.status = 400
             /\ products' = products
             /\ next_id' = next_id]_vars

\* A payload naming an unknown category was answered 400 with a row stored.
InvalidCreateWitness ==
    /\ request.method = "POST"
    /\ HasJsonType(request.headers)
    /\ request.json = BogusCategory
    /\ response.status = 400
    /\ DOMAIN products # {}

(* C7: filter correctness for name and category.  GET /products?name=X     *)
(* returns 200 with exactly the stored products named X; and, with no name *)
(* parameter, GET /products?category=C for C naming a member of the        *)
(* enumeration in any letter case returns 200 with exactly the stored      *)
(* products of that category.  An empty match is an empty list.            *)
FilterNameCategory ==
    request.method = "LIST"
        => /\ "name" \in DOMAIN request.args
                => ListsExactly(response,
                       {i \in DOMAIN products :
                            products[i].name = request.args["name"]})
           /\ (/\ "name" \notin DOMAIN request.args
               /\ "category" \in DOMAIN request.args
               /\ upper(request.args["category"]) \in Category)
                => ListsExactly(response,
                       {i \in DOMAIN products :
                            products[i].category
                                = upper(request.args["category"])})

\* category=Food, in mixed case, listed one of two stored products.
FilterCategoryWitness ==
    /\ request.method = "LIST"
    /\ request.args = ByCategory("Food")
    /\ Cardinality(DOMAIN products) = 2
    /\ response.status = 200
    /\ Cardinality(response.body.value) = 1

(* C8, as stated: GET /products?available=V returns 200 with exactly the   *)
(* stored products whose available field is the boolean V denotes: True    *)
(* lists the available products, False the unavailable ones.               *)
FilterAvailable ==
    (/\ request.method = "LIST"
     /\ DOMAIN request.args = {"available"}
     /\ request.args["available"] \in {"True", "False"})
        => ListsExactly(response,
               {i \in DOMAIN products :
                    products[i].available
                        = (request.args["available"] = "True")})

(* C9: filter precedence.  GET /products applies one filter: by name when  *)
(* name is present; else by category when category is present (listing     *)
(* nothing by availability when the category is unknown); else by          *)
(* availability when available is present; parameters later in that order  *)
(* do not change the response.  With none of the three the response is 200 *)
(* with exactly all stored products.                                       *)
FilterPrecedence ==
    request.method = "LIST"
        => IF "name" \in DOMAIN request.args
             THEN ListsExactly(response,
                      {i \in DOMAIN products :
                           products[i].name = request.args["name"]})
           ELSE IF "category" \in DOMAIN request.args
             THEN IF upper(request.args["category"]) \in Category
                    THEN ListsExactly(response,
                             {i \in DOMAIN products :
                                  products[i].category
                                      = upper(request.args["category"])})
                    ELSE response.status # 200
           ELSE IF "available" \in DOMAIN request.args
             THEN \E b \in BOOLEAN :
                      ListsExactly(response,
                          {i \in DOMAIN products : products[i].available = b})
           ELSE ListsExactly(response, DOMAIN products)

\* name, an unknown category and available were all given; the products of
\* that name were listed, and they are not all the stored products.
FilterPrecedenceWitness ==
    /\ request.method = "LIST"
    /\ DOMAIN request.args = {"name", "category", "available"}
    /\ request.args["category"] = "bogus"
    /\ response.status = 200
    /\ Cardinality(response.body.value) = 1
    /\ Cardinality(DOMAIN products) = 2

(* C10, as stated: GET /products?category=C with no name parameter, where  *)
(* the upper-cased C is no member of the enumeration, returns 400.         *)
UnknownCategoryIs400 ==
    (/\ request.method = "LIST"
     /\ "name" \notin DOMAIN request.args
     /\ "category" \in DOMAIN request.args
     /\ upper(request.args["category"]) \notin Category)
        => response.status = 400

(* C11: order of checks in update.  PUT /products/{id} checks the content  *)
(* type, then looks up the id, then validates the body: a PUT whose        *)
(* Content-Type is missing or wrong returns 415 whether or not the id      *)
(* exists, and a PUT as application/json to an id with no stored product   *)
(* returns 404 even when its body is invalid.                              *)
UpdateCheckOrder ==
    [][request'.method = "PUT"
          => /\ ~HasJsonType(request'.headers) => response'.status = 415
             /\ (/\ HasJsonType(request'.headers)
                 /\ request'.product_id \notin DOMAIN products)
                    => response'.status = 404
             /\ (/\ HasJsonType(request'.headers)
                 /\ request'.product_id \in DOMAIN products
                 /\ request'.json \in InvalidPayloads)
                    => response'.status = 400]_vars

\* An invalid body put as application/json to a missing id was answered 404
\* while a product is stored.
UpdateCheckOrderWitness ==
    /\ request.method = "PUT"
    /\ HasJsonType(request.headers)
    /\ request.json = NoName
    /\ request.product_id \notin DOMAIN products
    /\ DOMAIN products # {}
    /\ response.status = 404

(* C12: a rejected update changes nothing.  When a PUT to an existing      *)
(* product is answered 415 or 400, every field of that product and every   *)
(* other stored product is as before the request.                          *)
RejectedUpdateChangesNothing ==
    [][(/\ request'.method = "PUT"
        /\ request'.product_id \in DOMAIN products
        /\ response'.status \in {400, 415})
          => /\ products' = products
             /\ next_id' = next_id]_vars

\* A body with a valid name and an unknown category, put to an existing
\* product of another name, was answered 400.
RejectedUpdateWitness ==
    /\ request.method = "PUT"
    /\ request.product_id = 1
    /\ DOMAIN products = {1, 2}
    /\ request.json = BogusCategory
    /\ products[1].name = "Cap"
    /\ response.status = 400

(* C13: unguarded concurrent updates.  The lookup and the write of a PUT   *)
(* are separate steps with no version check: however the PUT requests of   *)
(* two workers interleave, a valid PUT to an id that is stored at its      *)
(* lookup is not rejected and returns 200 with its own body's values, and  *)
(* the stored product holds the body of the request that wrote it last.    *)
UnguardedConcurrentUpdates ==
    \A w \in Workers :
        /\ (/\ puts[w].pc = "done"
            /\ HasJsonType(puts[w].headers)
            /\ puts[w].json \in ValidPayloads
            /\ puts[w].old_product # {})
              => /\ puts[w].response.status = 200
                 /\ puts[w].wrote > 0
                 /\ puts[w].response.body.value.id = puts[w].product_id
                 /\ SameFields(puts[w].response.body.value, puts[w].json)
        /\ (/\ puts[w].wrote > 0
            /\ \A v \in Workers :
                   puts[v].product_id = puts[w].product_id
                       => puts[v].wrote <= puts[w].wrote)
              => RowHolds(products[puts[w].product_id], puts[w].json)

\* Both workers looked the same product up before either wrote; both were
\* answered 200 with different bodies, and the stored product holds only
\* the body written last: the other update is lost.
LostUpdateWitness ==
    /\ puts["w1"].pc = "done"
    /\ puts["w2"].pc = "done"
    /\ puts["w1"].product_id = puts["w2"].product_id
    /\ puts["w1"].old_product = puts["w2"].old_product
    /\ puts["w1"].response.status = 200
    /\ puts["w2"].response.status = 200
    /\ puts["w1"].wrote = 2
    /\ puts["w2"].wrote = 1
    /\ RowHolds(products[puts["w1"].product_id], puts["w1"].json)
    /\ ~RowHolds(products[puts["w1"].product_id], puts["w2"].json)

====
